---- MODULE Spec2Model ----
(***************************************************************************)
(* Model of GenericRestServer (server.js): the five route handlers of      *)
(* setupRoutes acting on a file store rooted at dbPath.  req, res and pre   *)
(* record the exchange of a request handled in one step until the client   *)
(* has the response; running holds the handlers that run at the same time. *)
(*                                                                         *)
(* A path is the sequence of its segments.  A document is a function from  *)
(* field names to values; the content of a file is its JSON text, modelled *)
(* as the set of <<key, value>> pairs that JSON.stringify writes.          *)
(*                                                                         *)
(* Four specifications:  Spec runs the five handlers from the empty store, *)
(* with lists that carry no query string; QuerySpec starts from a stored   *)
(* collection and runs the list with query strings (filter, sort, page);   *)
(* in both a request is handled in one step.  ConcSpec runs the handlers   *)
(* of several requests at once, one file-system call at a time, on a       *)
(* stored collection.  PathSpec is Spec for request paths that have the    *)
(* segments . and .. in them.                                              *)
(***************************************************************************)
EXTENDS Integers, Sequences, FiniteSets, TLC

\* ---- bounds --------------------------------------------------------------
MaxUuid  == 2   \* identifiers uuidv4 can hand out (number of POSTs that create)
MaxTime  == 1   \* clock readings 0..MaxTime
MaxDepth == 1   \* depth of the collection paths requests are sent to
MaxDocs == 3    \* documents of the collection the query engine is run on
MaxParams == 2  \* filter and sort parameters of a query string
MaxPage == 2    \* values 0..MaxPage of _limit and _offset
MaxClients == 2 \* requests that are handled at the same time
MaxSegments == 2 \* segments of a request path that may have . and .. in it

VARIABLES
  files,    \* file path |-> JSON text, for every regular file on disk
  dirs,     \* set of directory paths on disk
  now,      \* the clock read by new Date()
  issued,   \* identifiers uuidv4 has returned so far
  req,      \* the last request handled
  res,      \* the response sent to it
  pre,      \* files as they were when the last request arrived
  running   \* client |-> the handler of its request, where it stands between awaits

vars == <<files, dirs, now, issued, req, res, pre, running>>

\* ---- strings ---------------------------------------------------------------
\* `${id}.json`
JsonName(id) == id \o ".json"

\* new Date().toISOString(): one distinct text per clock reading
toISOString(t) == "t" \o ToString(t)

\* the texts uuidv4 can produce (canonical 8-4-4-4-12 identifiers)
Uuid(n) == "u" \o ToString(n)
Uuids == {Uuid(n) : n \in 1..MaxUuid}

\* the texts that have the shape of an identifier
UuidShaped == {Uuid(n) : n \in 1..(IF MaxDocs > MaxUuid THEN MaxDocs ELSE MaxUuid)}

\* /^[0-9a-f]{8}-[0-9a-f]{4}-[0-9a-f]{4}-[0-9a-f]{4}-[0-9a-f]{12}$/i .test(s)
uuidRegex(s) == s \in UuidShaped

\* segments that name collections, and segments a client may put last
CollSegs == {"users"}
PlainSegs == {"x"}
LastSegs == Uuids \cup PlainSegs
Stems == LastSegs \cup CollSegs \cup UuidShaped

\* file.endsWith('.json') and path.parse(file).name
endsWithJson(name) == \E s \in Stems : name = JsonName(s)
parseName(name) == IF endsWithJson(name)
                   THEN CHOOSE s \in Stems : name = JsonName(s)
                   ELSE name

\* ---- documents and JSON ----------------------------------------------------
\* object spread { ...a, ...b }: the fields of b win
Spread(a, b) == [f \in DOMAIN a \cup DOMAIN b |->
                   IF f \in DOMAIN b THEN b[f] ELSE a[f]]

JSONstringify(d) == {<<f, d[f]>> : f \in DOMAIN d}
JSONparse(text) == [f \in {p[1] : p \in text} |->
                      (CHOOSE p \in text : p[1] = f)[2]]

NoFiles == [p \in {} |-> {}]

\* ---- paths -------------------------------------------------------------------
dbPath == <<"db">>

Front(s) == SubSeq(s, 1, Len(s) - 1)
Last(s) == s[Len(s)]

RECURSIVE normalize(_, _)
\* path.join / path.normalize on an absolute path: "." is dropped, ".." pops
normalize(acc, rest) ==
  IF rest = <<>> THEN acc
  ELSE LET h == Head(rest) IN
       IF h = "." THEN normalize(acc, Tail(rest))
       ELSE IF h = ".." THEN normalize(IF acc = <<>> THEN acc ELSE Front(acc), Tail(rest))
       ELSE normalize(Append(acc, h), Tail(rest))

getDbPath(parts) == normalize(<<>>, dbPath \o parts)

IsPrefix(p, q) == Len(p) <= Len(q) /\ SubSeq(q, 1, Len(p)) = p
Prefixes(p) == {SubSeq(p, 1, n) : n \in 0..Len(p)}

\* ---- the file system ---------------------------------------------------------
\* fs.stat / fs.access on path p, given the regular files fl and directories ds
stat(fl, ds, p) ==
  IF p \in ds THEN "dir"
  ELSE IF p \in DOMAIN fl THEN "file"
  ELSE IF \E q \in Prefixes(p) : q \in DOMAIN fl THEN "ENOTDIR"
  ELSE "ENOENT"

\* fs.readdir: the names of the entries of directory p (in no particular order)
readdir(fl, ds, p) ==
  {Last(q) : q \in {r \in ds \cup DOMAIN fl : Len(r) = Len(p) + 1 /\ IsPrefix(p, r)}}

\* fs.writeFile: "ok" and the new files, or the error code
writeFile(fl, ds, p, text) ==
  IF p \in ds THEN [code |-> "EISDIR", files |-> fl]
  ELSE IF Front(p) \notin ds
       THEN [code |-> IF stat(fl, ds, Front(p)) = "ENOENT" THEN "ENOENT" ELSE "ENOTDIR",
             files |-> fl]
  ELSE [code |-> "ok",
        files |-> [q \in DOMAIN fl \cup {p} |-> IF q = p THEN text ELSE fl[q]]]

\* an unlink that removes every file of the directory of p
unlinkDirectory(fl, p) == [q \in {r \in DOMAIN fl : Front(r) # Front(p)} |-> fl[q]]

\* fs.unlink
unlink(fl, p) == [q \in DOMAIN fl \ {p} |-> fl[q]]

\* ensureDirectoryExists: fs.access, and fs.mkdir(recursive) when it fails
ensureDirectoryExists(fl, ds, dirPath) ==
  IF stat(fl, ds, dirPath) \in {"dir", "file"} THEN [code |-> "ok", dirs |-> ds]
  ELSE IF \E q \in Prefixes(dirPath) : q \in DOMAIN fl
       THEN [code |-> "ENOTDIR", dirs |-> ds]
  ELSE [code |-> "ok", dirs |-> ds \cup Prefixes(dirPath)]

\* ---- responses ---------------------------------------------------------------
ItemNaoEncontrado == "Item nao encontrado"
ArquivoNaoEncontrado == "Arquivo nao encontrado"
ErroInterno == "Erro interno do servidor"
IdObrigatorioAtualizacao == "ID e obrigatorio para atualizacao"
IdObrigatorioExclusao == "ID e obrigatorio para exclusao"
ItemRemovido == "Item removido com sucesso"

\* res.status(s).json(body): the body travels as JSON text
Doc(status, data) == [status |-> status, kind |-> "doc",
                      body |-> JSONparse(JSONstringify(data))]
List(items) == [status |-> 200, kind |-> "list",
                body |-> [i \in 1..Len(items) |-> JSONparse(JSONstringify(items[i]))]]
Error(status, msg) == [status |-> status, kind |-> "error", body |-> [error |-> msg]]
Removed(id) == [status |-> 200, kind |-> "removed",
                body |-> [message |-> ItemRemovido, id |-> id]]

Outcome(r, fl, ds) == [res |-> r, files |-> fl, dirs |-> ds]

\* ---- the route handlers --------------------------------------------------------
\* Each handler maps the request (and the values it draws: clock reading t,
\* identifier id, directory order) to its response and the store it leaves.

\* requestPath.split('/').filter(part => part !== '')
pathParts(requestPath) == SelectSeq(requestPath, LAMBDA part : part # "")

\* { id, ...req.body, createdAt: new Date().toISOString() }
PostData(id, body, t) ==
  Spread(Spread([id |-> id], body), [createdAt |-> toISOString(t)])

\* app.post('*')
PostHandler(fl, ds, requestPath, body, id, t) ==
  LET fullPath == getDbPath(requestPath)
      ensured  == ensureDirectoryExists(fl, ds, fullPath)
      filePath == Append(fullPath, JsonName(id))
      data     == PostData(id, body, t)
      written  == writeFile(fl, ensured.dirs, filePath, JSONstringify(data))
  IN  IF ensured.code # "ok" THEN Outcome(Error(500, ErroInterno), fl, ds)
      ELSE IF written.code # "ok"
           THEN Outcome(Error(500, ErroInterno), fl, ensured.dirs)
      ELSE Outcome(Doc(201, data), written.files, ensured.dirs)

\* a PUT that keeps nothing of the previous version: { ...req.body, id, updatedAt }
PutDataReplace(currentData, body, id, t) ==
  Spread(Spread(body, [id |-> id]), [updatedAt |-> toISOString(t)])

\* PUT: { ...currentData, ...req.body, id: id, updatedAt: new Date().toISOString() }
PutData(currentData, body, id, t) ==
  Spread(Spread(Spread(currentData, body), [id |-> id]), [updatedAt |-> toISOString(t)])

\* a PATCH in which the previous version wins: { ...req.body, ...currentData, id, updatedAt }
PatchDataKeepOld(currentData, body, id, t) ==
  Spread(Spread(Spread(body, currentData), [id |-> id]), [updatedAt |-> toISOString(t)])

\* PATCH: { ...currentData, ...req.body, id: id, updatedAt: new Date().toISOString() }
PatchData(currentData, body, id, t) ==
  Spread(Spread(Spread(currentData, body), [id |-> id]), [updatedAt |-> toISOString(t)])

\* a PUT without the check that the path has a segment: id is undefined and
\* the file looked for is undefined.json
PutHandlerNoGuard(fl, ds, requestPath, body, t) ==
  LET parts    == pathParts(requestPath)
      id       == IF Len(parts) = 0 THEN "undefined" ELSE Last(parts)
      dirPath  == getDbPath(IF Len(parts) = 0 THEN parts ELSE Front(parts))
      filePath == Append(dirPath, JsonName(id))
      found    == stat(fl, ds, filePath)
  IN  IF found = "ENOENT" THEN Outcome(Error(404, ItemNaoEncontrado), fl, ds)
      ELSE IF found # "file" THEN Outcome(Error(500, ErroInterno), fl, ds)
      ELSE LET updatedData == PutData(JSONparse(fl[filePath]), body, id, t)
               written     == writeFile(fl, ds, filePath, JSONstringify(updatedData))
           IN  Outcome(Doc(200, updatedData), written.files, ds)

\* app.put('*')
PutHandler(fl, ds, requestPath, body, t) ==
  LET parts == pathParts(requestPath) IN
  IF Len(parts) = 0
  THEN Outcome(Error(400, IdObrigatorioAtualizacao), fl, ds)
  ELSE
    LET id       == Last(parts)
        dirPath  == getDbPath(Front(parts))
        filePath == Append(dirPath, JsonName(id))
        found    == stat(fl, ds, filePath)
    IN  IF found = "ENOENT" THEN Outcome(Error(404, ItemNaoEncontrado), fl, ds)
        ELSE IF found # "file" THEN Outcome(Error(500, ErroInterno), fl, ds)
        ELSE LET currentData == JSONparse(fl[filePath])
                 updatedData == PutData(currentData, body, id, t)
                 written     == writeFile(fl, ds, filePath, JSONstringify(updatedData))
             IN  Outcome(Doc(200, updatedData), written.files, ds)

\* a PATCH that creates the document it does not find (an upsert)
PatchHandlerUpsert(fl, ds, requestPath, body, t) ==
  LET parts == pathParts(requestPath) IN
  IF Len(parts) = 0
  THEN Outcome(Error(400, IdObrigatorioAtualizacao), fl, ds)
  ELSE
    LET id          == Last(parts)
        dirPath     == getDbPath(Front(parts))
        filePath    == Append(dirPath, JsonName(id))
        found       == stat(fl, ds, filePath)
        currentData == IF found = "file" THEN JSONparse(fl[filePath]) ELSE [f \in {} |-> ""]
        updatedData == PatchData(currentData, body, id, t)
        written     == writeFile(fl, ds, filePath, JSONstringify(updatedData))
    IN  IF found \notin {"file", "ENOENT"} \/ written.code # "ok"
        THEN Outcome(Error(500, ErroInterno), fl, ds)
        ELSE Outcome(Doc(200, updatedData), written.files, ds)

\* app.patch('*')
PatchHandler(fl, ds, requestPath, body, t) ==
  LET parts == pathParts(requestPath) IN
  IF Len(parts) = 0
  THEN Outcome(Error(400, IdObrigatorioAtualizacao), fl, ds)
  ELSE
    LET id       == Last(parts)
        dirPath  == getDbPath(Front(parts))
        filePath == Append(dirPath, JsonName(id))
        found    == stat(fl, ds, filePath)
    IN  IF found = "ENOENT" THEN Outcome(Error(404, ItemNaoEncontrado), fl, ds)
        ELSE IF found # "file" THEN Outcome(Error(500, ErroInterno), fl, ds)
        ELSE LET currentData == JSONparse(fl[filePath])
                 updatedData == PatchData(currentData, body, id, t)
                 written     == writeFile(fl, ds, filePath, JSONstringify(updatedData))
             IN  Outcome(Doc(200, updatedData), written.files, ds)

\* a DELETE that, sent to a collection, removes the documents of the collection
DeleteHandlerCollection(fl, ds, requestPath) ==
  LET parts == pathParts(requestPath) IN
  IF Len(parts) = 0
  THEN Outcome(Error(400, IdObrigatorioExclusao), fl, ds)
  ELSE
    LET id       == Last(parts)
        dirPath  == getDbPath(Front(parts))
        filePath == Append(dirPath, JsonName(id))
        found    == stat(fl, ds, filePath)
        inside   == {q \in DOMAIN fl : Front(q) = getDbPath(parts)}
    IN  IF found = "file" THEN Outcome(Removed(id), unlink(fl, filePath), ds)
        ELSE IF inside # {}
             THEN Outcome(Removed(id), [q \in DOMAIN fl \ inside |-> fl[q]], ds)
        ELSE IF found = "ENOENT" THEN Outcome(Error(404, ItemNaoEncontrado), fl, ds)
        ELSE Outcome(Error(500, ErroInterno), fl, ds)

\* app.delete('*')
DeleteHandler(fl, ds, requestPath) ==
  LET parts == pathParts(requestPath) IN
  IF Len(parts) = 0
  THEN Outcome(Error(400, IdObrigatorioExclusao), fl, ds)
  ELSE
    LET id       == Last(parts)
        dirPath  == getDbPath(Front(parts))
        filePath == Append(dirPath, JsonName(id))
        found    == stat(fl, ds, filePath)
    IN  IF found = "ENOENT" THEN Outcome(Error(404, ItemNaoEncontrado), fl, ds)
        ELSE IF found # "file" THEN Outcome(Error(500, ErroInterno), fl, ds)
        ELSE Outcome(Removed(id), unlink(fl, filePath), ds)

\* the orders in which fs.readdir may hand back the names in S
Orders(S) == {o \in [1..Cardinality(S) -> S] :
                \A i, j \in 1..Cardinality(S) : i # j => o[i] # o[j]}

\* a list that gives the identifiers only: items.push({ id: path.parse(file).name })
ListItemIdOnly(file, data) == [id |-> parseName(file)]

\* items.push({ id: path.parse(file).name, ...data })
ListItem(file, data) == Spread([id |-> parseName(file)], data)

\* a GET that answers 404 for a directory that does not exist
GetHandlerMissing404(fl, ds, requestPath, order) ==
  LET parts == pathParts(requestPath) IN
  IF Len(parts) > 0 /\ uuidRegex(Last(parts))
  THEN
    LET filePath == Append(getDbPath(Front(parts)), JsonName(Last(parts)))
        found    == stat(fl, ds, filePath)
    IN  IF found = "ENOENT" THEN Outcome(Error(404, ItemNaoEncontrado), fl, ds)
        ELSE IF found # "file" THEN Outcome(Error(500, ErroInterno), fl, ds)
        ELSE Outcome(Doc(200, JSONparse(fl[filePath])), fl, ds)
  ELSE
    LET fullPath == getDbPath(requestPath)
        stats    == stat(fl, ds, fullPath)
    IN  IF stats = "ENOENT" THEN Outcome(Error(404, ArquivoNaoEncontrado), fl, ds)
        ELSE IF stats = "ENOTDIR" THEN Outcome(Error(500, ErroInterno), fl, ds)
        ELSE IF stats = "dir"
        THEN IF \E i \in 1..Len(order) : Append(fullPath, order[i]) \in ds
             THEN Outcome(Error(500, ErroInterno), fl, ds)
             ELSE Outcome(List([i \in 1..Len(order) |->
                            ListItem(order[i], JSONparse(fl[Append(fullPath, order[i])]))]),
                          fl, ds)
        ELSE IF endsWithJson(Last(fullPath))
        THEN Outcome(Doc(200, JSONparse(fl[fullPath])), fl, ds)
        ELSE Outcome(Error(404, ArquivoNaoEncontrado), fl, ds)

\* app.get('*') for a request without query parameters; order is the order
\* in which readdir returns the .json entries
GetHandler(fl, ds, requestPath, order) ==
  LET parts == pathParts(requestPath) IN
  IF Len(parts) > 0 /\ uuidRegex(Last(parts))
  THEN
    LET id       == Last(parts)
        dirPath  == getDbPath(Front(parts))
        filePath == Append(dirPath, JsonName(id))
        found    == stat(fl, ds, filePath)
    IN  IF found = "ENOENT" THEN Outcome(Error(404, ItemNaoEncontrado), fl, ds)
        ELSE IF found # "file" THEN Outcome(Error(500, ErroInterno), fl, ds)
        ELSE Outcome(Doc(200, JSONparse(fl[filePath])), fl, ds)
  ELSE
    LET fullPath == getDbPath(requestPath)
        stats    == stat(fl, ds, fullPath)
    IN  IF stats = "ENOENT" THEN Outcome(List(<<>>), fl, ds)
        ELSE IF stats = "ENOTDIR" THEN Outcome(Error(500, ErroInterno), fl, ds)
        ELSE IF stats = "dir"
        THEN IF \E i \in 1..Len(order) : Append(fullPath, order[i]) \in ds
             THEN Outcome(Error(500, ErroInterno), fl, ds)
             ELSE Outcome(List([i \in 1..Len(order) |->
                            ListItem(order[i], JSONparse(fl[Append(fullPath, order[i])]))]),
                          fl, ds)
        ELSE IF endsWithJson(Last(fullPath))
        THEN Outcome(Doc(200, JSONparse(fl[fullPath])), fl, ds)
        ELSE Outcome(Error(404, ArquivoNaoEncontrado), fl, ds)

\* files.filter(file => file.endsWith('.json')) of the directory a list reads
jsonFiles(fl, ds, requestPath) ==
  {f \in readdir(fl, ds, getDbPath(requestPath)) : endsWithJson(f)}

\* ---- texts and JSON values of the query engine ---------------------------------
\* For the query engine a text is the sequence of its characters, and a JSON
\* value of a document is a string or a number:  Str(text) or Num(n).
Str(text) == [s |-> text]
Num(n) == [n |-> n]
IsStr(v) == DOMAIN v = {"s"}

Digits == <<"0", "1", "2", "3", "4", "5", "6", "7", "8", "9">>
LowerCase == <<"a", "b", "c", "d", "e", "f", "g", "h", "i", "j", "k", "l", "m",
               "n", "o", "p", "q", "r", "s", "t", "u", "v", "w", "x", "y", "z">>
UpperCase == <<"A", "B", "C", "D", "E", "F", "G", "H", "I", "J", "K", "L", "M",
               "N", "O", "P", "Q", "R", "S", "T", "U", "V", "W", "X", "Y", "Z">>

IndexOf(c, chars) == CHOOSE i \in 1..Len(chars) : chars[i] = c
IsIn(c, chars) == \E i \in 1..Len(chars) : chars[i] = c

\* String.prototype.toLowerCase
toLowerCase(text) ==
  [i \in 1..Len(text) |->
     IF IsIn(text[i], UpperCase) THEN LowerCase[IndexOf(text[i], UpperCase)] ELSE text[i]]

\* String.prototype.startsWith and slice(k)
startsWith(text, prefix) ==
  Len(prefix) <= Len(text) /\ SubSeq(text, 1, Len(prefix)) = prefix
endsWith(text, suffix) ==
  Len(suffix) <= Len(text)
    /\ SubSeq(text, Len(text) - Len(suffix) + 1, Len(text)) = suffix
sliceFrom(text, k) == SubSeq(text, k + 1, Len(text))

RECURSIVE NumToText(_)
\* String(n) for an integer n >= 0
NumToText(n) ==
  IF n < 10 THEN <<Digits[n + 1]>>
  ELSE Append(NumToText(n \div 10), Digits[(n % 10) + 1])

RECURSIVE Implode(_)
\* the text as one string, for use as a property name
Implode(text) == IF text = <<>> THEN "" ELSE Head(text) \o Implode(Tail(text))

RECURSIVE DigitsValue(_, _)
DigitsValue(acc, text) ==
  IF text = <<>> \/ ~IsIn(Head(text), Digits) THEN acc
  ELSE DigitsValue(10 * acc + IndexOf(Head(text), Digits) - 1, Tail(text))

\* parseFloat(text) and parseInt(text) on texts without sign, point, exponent or
\* blanks: the number its leading digits spell, <<n>>, or NaN, <<>>
NaN == <<>>
parseFloat(text) ==
  IF text # <<>> /\ IsIn(Head(text), Digits) THEN <<DigitsValue(0, text)>> ELSE NaN
parseInt(text) == parseFloat(text)

\* String(itemValue), parseFloat(itemValue) and Number(itemValue) of a value
String(v) == IF IsStr(v) THEN v.s ELSE NumToText(v.n)
parseFloatOf(v) == IF IsStr(v) THEN parseFloat(v.s) ELSE <<v.n>>
ToNumber(v) ==
  IF ~IsStr(v) THEN <<v.n>>
  ELSE IF v.s = <<>> THEN <<0>>
  ELSE IF \A i \in 1..Len(v.s) : IsIn(v.s[i], Digits) THEN <<DigitsValue(0, v.s)>>
  ELSE NaN

RECURSIVE joinComma(_)
\* Array.prototype.join(','), which String(array) is
joinComma(texts) ==
  IF Len(texts) = 0 THEN <<>>
  ELSE IF Len(texts) = 1 THEN texts[1]
  ELSE texts[1] \o <<",">> \o joinComma(Tail(texts))

RECURSIVE MatchHere(_, _)
\* the pattern, in which every * stands for .*, matches a prefix of text
MatchHere(pattern, text) ==
  IF pattern = <<>> THEN TRUE
  ELSE IF Head(pattern) = "*"
       THEN \E k \in 0..Len(text) : MatchHere(Tail(pattern), sliceFrom(text, k))
  ELSE text # <<>> /\ Head(text) = Head(pattern) /\ MatchHere(Tail(pattern), Tail(text))

\* new RegExp(pattern.replace(/\*/g, '.*'), 'i').test(text): a search, the
\* match may start anywhere in text
regexTest(pattern, text) ==
  \E k \in 0..Len(text) : MatchHere(toLowerCase(pattern), sliceFrom(toLowerCase(text), k))

\* ---- the query string ------------------------------------------------------------
\* A query string is the sequence of its parameters (the pieces between the
\* &s); a parameter is a sequence of tokens, a field name or a character.
\* req.query (the qs parser) splits each parameter at its first "=" and
\* gathers the values of a name that occurs more than once into an array.
\* A value of req.query is modelled as the sequence of the texts given for
\* the name: of length 1 it is a string, longer it is an array.
FirstEq(param) ==
  IF \E i \in 1..Len(param) : param[i] = "="
  THEN CHOOSE i \in 1..Len(param) :
         param[i] = "=" /\ \A j \in 1..(i - 1) : param[j] # "="
  ELSE Len(param) + 1

KeyOf(param) == Implode(SubSeq(param, 1, FirstEq(param) - 1))
ValOf(param) == SubSeq(param, FirstEq(param) + 1, Len(param))

RECURSIVE ValuesOf(_, _)
ValuesOf(key, query) ==
  IF query = <<>> THEN <<>>
  ELSE IF KeyOf(Head(query)) = key
       THEN <<ValOf(Head(query))>> \o ValuesOf(key, Tail(query))
  ELSE ValuesOf(key, Tail(query))

reqQuery(query) ==
  [key \in {KeyOf(query[i]) : i \in 1..Len(query)} |-> ValuesOf(key, query)]

\* a value of req.query used as a condition, compared with === and as a string
truthy(queryParams, key) ==
  key \in DOMAIN queryParams
    /\ (Len(queryParams[key]) > 1 \/ queryParams[key][1] # <<>>)
isText(queryParams, key, text) ==
  key \in DOMAIN queryParams /\ queryParams[key] = <<text>>
parseIntOf(queryParams, key) ==
  IF key \in DOMAIN queryParams THEN parseInt(joinComma(queryParams[key])) ELSE NaN

\* ---- the query engine -------------------------------------------------------------
Reserved == {"_limit", "_offset", "_sort", "_order"}

\* a comparison of the filter: !isNaN(numValue) && parseFloat(itemValue) op numValue
GE(x, y) == x # NaN /\ y # NaN /\ x[1] >= y[1]
LE(x, y) == x # NaN /\ y # NaN /\ x[1] <= y[1]
GT(x, y) == x # NaN /\ y # NaN /\ x[1] > y[1]
LT(x, y) == x # NaN /\ y # NaN /\ x[1] < y[1]

\* a filter whose != compares as numbers when both sides parse as numbers
filterEntryNegationCoerced(item, key, value) ==
  IF key \in Reserved THEN TRUE
  ELSE IF key \notin DOMAIN item THEN FALSE
  ELSE
    LET itemValue      == item[key]
        itemValueStr   == toLowerCase(String(itemValue))
        filterValueStr == toLowerCase(joinComma(value))
    IN  IF startsWith(filterValueStr, <<">", "=">>)
        THEN GE(parseFloatOf(itemValue), parseFloat(sliceFrom(filterValueStr, 2)))
        ELSE IF startsWith(filterValueStr, <<"<", "=">>)
        THEN LE(parseFloatOf(itemValue), parseFloat(sliceFrom(filterValueStr, 2)))
        ELSE IF startsWith(filterValueStr, <<">">>)
        THEN GT(parseFloatOf(itemValue), parseFloat(sliceFrom(filterValueStr, 1)))
        ELSE IF startsWith(filterValueStr, <<"<">>)
        THEN LT(parseFloatOf(itemValue), parseFloat(sliceFrom(filterValueStr, 1)))
        ELSE IF startsWith(filterValueStr, <<"!", "=">>)
        THEN IF parseFloatOf(itemValue) # NaN /\ parseFloat(sliceFrom(filterValueStr, 2)) # NaN
             THEN parseFloatOf(itemValue) # parseFloat(sliceFrom(filterValueStr, 2))
             ELSE itemValueStr # sliceFrom(filterValueStr, 2)
        ELSE IF IsIn("*", filterValueStr)
        THEN regexTest(filterValueStr, itemValueStr)
        ELSE itemValueStr = filterValueStr

\* a filter that tests for > and < before it tests for >= and <=
filterEntryShortFirst(item, key, value) ==
  IF key \in Reserved THEN TRUE
  ELSE IF key \notin DOMAIN item THEN FALSE
  ELSE
    LET itemValue      == item[key]
        itemValueStr   == toLowerCase(String(itemValue))
        filterValueStr == toLowerCase(joinComma(value))
    IN  IF startsWith(filterValueStr, <<">">>)
        THEN GT(parseFloatOf(itemValue), parseFloat(sliceFrom(filterValueStr, 1)))
        ELSE IF startsWith(filterValueStr, <<"<">>)
        THEN LT(parseFloatOf(itemValue), parseFloat(sliceFrom(filterValueStr, 1)))
        ELSE IF startsWith(filterValueStr, <<">", "=">>)
        THEN GE(parseFloatOf(itemValue), parseFloat(sliceFrom(filterValueStr, 2)))
        ELSE IF startsWith(filterValueStr, <<"<", "=">>)
        THEN LE(parseFloatOf(itemValue), parseFloat(sliceFrom(filterValueStr, 2)))
        ELSE IF startsWith(filterValueStr, <<"!", "=">>)
        THEN itemValueStr # sliceFrom(filterValueStr, 2)
        ELSE IF IsIn("*", filterValueStr)
        THEN regexTest(filterValueStr, itemValueStr)
        ELSE itemValueStr = filterValueStr

\* the body of every(([key, value]) => ...) for one entry of req.query
filterEntry(item, key, value) ==
  IF key \in Reserved THEN TRUE
  ELSE IF key \notin DOMAIN item THEN FALSE
  ELSE
    LET itemValue      == item[key]
        itemValueStr   == toLowerCase(String(itemValue))
        filterValueStr == toLowerCase(joinComma(value))
    IN  IF startsWith(filterValueStr, <<">", "=">>)
        THEN GE(parseFloatOf(itemValue), parseFloat(sliceFrom(filterValueStr, 2)))
        ELSE IF startsWith(filterValueStr, <<"<", "=">>)
        THEN LE(parseFloatOf(itemValue), parseFloat(sliceFrom(filterValueStr, 2)))
        ELSE IF startsWith(filterValueStr, <<">">>)
        THEN GT(parseFloatOf(itemValue), parseFloat(sliceFrom(filterValueStr, 1)))
        ELSE IF startsWith(filterValueStr, <<"<">>)
        THEN LT(parseFloatOf(itemValue), parseFloat(sliceFrom(filterValueStr, 1)))
        ELSE IF startsWith(filterValueStr, <<"!", "=">>)
        THEN itemValueStr # sliceFrom(filterValueStr, 2)
        ELSE IF IsIn("*", filterValueStr)
        THEN regexTest(filterValueStr, itemValueStr)
        ELSE itemValueStr = filterValueStr

\* items.filter(item => Object.entries(queryParams).every(...))
filterItems(items, queryParams) ==
  SelectSeq(items, LAMBDA item :
                     \A key \in DOMAIN queryParams : filterEntry(item, key, queryParams[key]))

\* the collation of localeCompare: punctuation, digits, letters; of two texts
\* that differ in case only, the one with the lower-case letter comes first
CollationOrder == <<",", "!", "*", "<", "=", ">">> \o Digits \o LowerCase
Primary(text) ==
  [i \in 1..Len(text) |-> IndexOf(toLowerCase(text)[i], CollationOrder)]
Tertiary(text) == [i \in 1..Len(text) |-> IF IsIn(text[i], UpperCase) THEN 1 ELSE 0]

RECURSIVE LexCompare(_, _)
LexCompare(k1, k2) ==
  IF k1 = <<>> /\ k2 = <<>> THEN 0
  ELSE IF k1 = <<>> THEN -1
  ELSE IF k2 = <<>> THEN 1
  ELSE IF Head(k1) < Head(k2) THEN -1
  ELSE IF Head(k1) > Head(k2) THEN 1
  ELSE LexCompare(Tail(k1), Tail(k2))

localeCompare(t1, t2) ==
  IF LexCompare(Primary(t1), Primary(t2)) # 0
  THEN LexCompare(Primary(t1), Primary(t2))
  ELSE LexCompare(Tertiary(t1), Tertiary(t2))

\* a comparator whose rule for a missing field follows the direction
compareMissingByOrder(a, b, sortField, sortOrder) ==
  IF sortField \notin DOMAIN a THEN 1 * sortOrder
  ELSE IF sortField \notin DOMAIN b THEN -1 * sortOrder
  ELSE
    LET aValue == a[sortField]
        bValue == b[sortField]
    IN  IF IsStr(aValue) /\ IsStr(bValue)
        THEN localeCompare(aValue.s, bValue.s) * sortOrder
        ELSE IF LT(ToNumber(aValue), ToNumber(bValue)) THEN -1 * sortOrder
        ELSE IF GT(ToNumber(aValue), ToNumber(bValue)) THEN 1 * sortOrder
        ELSE 0

\* the comparator of items.sort((a, b) => ...)
compare(a, b, sortField, sortOrder) ==
  IF sortField \notin DOMAIN a THEN 1
  ELSE IF sortField \notin DOMAIN b THEN -1
  ELSE
    LET aValue == a[sortField]
        bValue == b[sortField]
    IN  IF IsStr(aValue) /\ IsStr(bValue)
        THEN localeCompare(aValue.s, bValue.s) * sortOrder
        ELSE IF LT(ToNumber(aValue), ToNumber(bValue)) THEN -1 * sortOrder
        ELSE IF GT(ToNumber(aValue), ToNumber(bValue)) THEN 1 * sortOrder
        ELSE 0

Reverse(s) == [i \in 1..Len(s) |-> s[Len(s) + 1 - i]]

\* Array.prototype.sort as Node.js (V8) does it for an array shorter than 64:
\* the run the array starts with is found (and reversed when it descends),
\* then every later element is put in place by binary insertion
sort(items, sortField, sortOrder) ==
  LET n == Len(items)
      cmp(a, b) == compare(a, b, sortField, sortOrder)
      descending == cmp(items[2], items[1]) < 0
      RECURSIVE runEnd(_)
      runEnd(idx) ==
        IF idx > n THEN n
        ELSE LET order == cmp(items[idx], items[idx - 1]) IN
             IF (descending /\ order >= 0) \/ (~descending /\ order < 0)
             THEN idx - 1
             ELSE runEnd(idx + 1)
      runLength == runEnd(3)
      run == IF descending
             THEN Reverse(SubSeq(items, 1, runLength)) \o SubSeq(items, runLength + 1, n)
             ELSE items
      RECURSIVE search(_, _, _, _)
      search(arr, pivot, left, right) ==
        IF left >= right THEN left
        ELSE LET mid == left + ((right - left) \div 2) IN
             IF cmp(pivot, arr[mid + 1]) < 0
             THEN search(arr, pivot, left, mid)
             ELSE search(arr, pivot, mid + 1, right)
      insert(arr, start) ==
        LET pivot == arr[start + 1]
            left  == search(arr, pivot, 0, start)
        IN  SubSeq(arr, 1, left) \o <<pivot>> \o SubSeq(arr, left + 1, start)
              \o SubSeq(arr, start + 2, n)
      RECURSIVE insertFrom(_, _)
      insertFrom(arr, start) ==
        IF start >= n THEN arr ELSE insertFrom(insert(arr, start), start + 1)
  IN  IF n < 2 THEN items ELSE insertFrom(run, runLength)

\* a sort that is ascending whatever _order says
sortItemsAscendingOnly(items, queryParams) ==
  IF truthy(queryParams, "_sort")
  THEN sort(items, Implode(joinComma(queryParams["_sort"])), 1)
  ELSE items

\* a sort that takes _order in any case (DESC, Desc) for desc
sortItemsAnyCase(items, queryParams) ==
  IF truthy(queryParams, "_sort")
  THEN sort(items, Implode(joinComma(queryParams["_sort"])),
            IF "_order" \in DOMAIN queryParams
                 /\ toLowerCase(joinComma(queryParams["_order"])) = <<"d", "e", "s", "c">>
            THEN -1 ELSE 1)
  ELSE items

\* if (queryParams._sort) { ... items.sort(...) }
sortItems(items, queryParams) ==
  IF truthy(queryParams, "_sort")
  THEN sort(items, Implode(joinComma(queryParams["_sort"])),
            IF isText(queryParams, "_order", <<"d", "e", "s", "c">>) THEN -1 ELSE 1)
  ELSE items

\* Array.prototype.slice(begin, end) and slice(begin), begin >= 0 and end >= 0
slice(items, begin, end) ==
  SubSeq(items, begin + 1, IF end < Len(items) THEN end ELSE Len(items))

\* if (queryParams._offset || queryParams._limit) { ... }
paginate(items, queryParams) ==
  IF truthy(queryParams, "_offset") \/ truthy(queryParams, "_limit")
  THEN LET parsed == parseIntOf(queryParams, "_offset")
           offset == IF parsed = NaN \/ parsed = <<0>> THEN 0 ELSE parsed[1]
           limit  == parseIntOf(queryParams, "_limit")
       IN  IF limit # NaN /\ limit # <<0>> THEN slice(items, offset, offset + limit[1])
           ELSE IF offset # 0 THEN slice(items, offset, Len(items))
           ELSE items
  ELSE items

\* lines 124-200: filter, sort, paginate
queryEngine(items, queryParams) ==
  paginate(sortItems(filterItems(items, queryParams), queryParams), queryParams)

\* app.get('*') for a request with a query string
GetQuery(fl, ds, requestPath, order, query) ==
  LET parts  == pathParts(requestPath)
      byId   == Len(parts) > 0 /\ uuidRegex(Last(parts))
      loaded == GetHandler(fl, ds, requestPath, order)
  IN  IF ~byId /\ stat(fl, ds, getDbPath(requestPath)) = "dir" /\ loaded.res.kind = "list"
      THEN Outcome(List(queryEngine(loaded.res.body, reqQuery(query))), fl, ds)
      ELSE loaded

\* ---- requests ----------------------------------------------------------------
\* req.body: the empty object, one field with a client-chosen value, or all the
\* fields at once; a field may be one the server manages, and an id may be
\* the identifier of a document (a document sent back as a new one)
BodyFields == {"id", "createdAt", "updatedAt", "name"}
BodyVals(f) == IF f = "name" THEN {"x", "y"}
               ELSE IF f = "id" THEN {"x", Uuid(1)}
               ELSE {"x"}
NoBody == [f \in {} |-> ""]
FullBody == [f \in BodyFields |-> IF f = "name" THEN "y" ELSE "x"]
Bodies == {NoBody, FullBody}
            \cup UNION {{[g \in {f} |-> v] : v \in BodyVals(f)} : f \in BodyFields}

CollPaths == UNION {[1..n -> CollSegs] : n \in 1..MaxDepth}

\* POST takes any path as a collection, also one whose last segment has the
\* shape of an identifier
PostPaths == CollPaths \cup {Append(c, Uuid(1)) : c \in CollPaths}

ReqPaths == {<<>>} \cup CollPaths \cup {Append(c, s) : c \in CollPaths, s \in LastSegs}

\* a request, and the clock reading while it is handled
Request(method, path, body) ==
  [method |-> method, path |-> path, body |-> body, at |-> now]

NoRequest == [method |-> "NONE", path |-> <<>>, body |-> NoBody, at |-> 0]
NoResponse == [status |-> 0, kind |-> "none", body |-> NoBody]

\* the clients whose requests can be in the server at the same time, and the
\* handler of a client that has sent nothing
Clients == 1..MaxClients
Idle == [method |-> "NONE", path |-> <<>>, body |-> NoBody, pc |-> "idle",
         currentData |-> NoBody, updatedData |-> NoBody, jsonFiles |-> <<>>,
         items |-> <<>>, kept |-> {}, res |-> NoResponse]
NoneRunning == [c \in Clients |-> Idle]

\* the handler runs start to finish on a request: its response is sent and its
\* writes are on disk
Respond(request, out) ==
  /\ req = NoRequest
  /\ req' = request
  /\ res' = out.res
  /\ files' = out.files
  /\ dirs' = out.dirs
  /\ pre' = files
  /\ UNCHANGED <<now, running>>

\* the exchange is over: the client has the response, the next request can come
Close ==
  /\ req # NoRequest
  /\ req' = NoRequest
  /\ res' = NoResponse
  /\ pre' = NoFiles
  /\ UNCHANGED <<files, dirs, now, issued, running>>

\* time passes between requests
Tick ==
  /\ req = NoRequest
  /\ now < MaxTime
  /\ now' = now + 1
  /\ UNCHANGED <<files, dirs, issued, req, res, pre, running>>

Get ==
  \E path \in ReqPaths :
    \E order \in Orders(jsonFiles(files, dirs, path)) :
      /\ Respond(Request("GET", path, NoBody), GetHandler(files, dirs, path, order))
      /\ UNCHANGED issued

Post ==
  \E path \in PostPaths, body \in Bodies :
    \E id \in Uuids \ issued :
      /\ Respond(Request("POST", path, body), PostHandler(files, dirs, path, body, id, now))
      /\ issued' = issued \cup {id}

Put ==
  \E path \in ReqPaths, body \in Bodies :
    /\ Respond(Request("PUT", path, body), PutHandler(files, dirs, path, body, now))
    /\ UNCHANGED issued

Patch ==
  \E path \in ReqPaths, body \in Bodies :
    /\ Respond(Request("PATCH", path, body), PatchHandler(files, dirs, path, body, now))
    /\ UNCHANGED issued

Delete ==
  \E path \in ReqPaths :
    /\ Respond(Request("DELETE", path, NoBody), DeleteHandler(files, dirs, path))
    /\ UNCHANGED issued

\* the store after start(): ensureDirectoryExists(this.dbPath), no request yet
Init ==
  /\ files = NoFiles
  /\ dirs = Prefixes(dbPath)
  /\ now = 0
  /\ issued = {}
  /\ req = NoRequest
  /\ res = NoResponse
  /\ pre = NoFiles
  /\ running = NoneRunning

Next == Get \/ Post \/ Put \/ Patch \/ Delete \/ Close \/ Tick

Spec == Init /\ [][Next]_vars

\* ---- the query engine on a stored collection -----------------------------------
\* The specification QuerySpec starts from a store that holds a collection
\* with some of the documents QDoc(1..MaxDocs), or nothing at all, and sends
\* it lists with query strings.
QColl == <<"items">>
QPrices == <<1, 10, 25>>
QNames == <<<<"a", "b">>, <<"B", "a">>>>
QAges == <<30, 30, 25>>

\* the document POST stores in <Uuid(n)>.json for a body with price and age,
\* with name unless it is every third document, and with tag when it is every
\* third document after the second
QDoc(n) ==
  LET k     == ((n - 1) % 3) + 1
      fixed == [id |-> Str(<<"u">> \o NumToText(n)), createdAt |-> Str(<<"t", "0">>),
                price |-> Num(QPrices[k]), age |-> Num(QAges[k])]
      named == IF k = 3 THEN fixed ELSE Spread(fixed, [name |-> Str(QNames[k])])
  IN  IF k = 2 THEN Spread(named, [tag |-> Str(<<"x">>)]) ELSE named

QFile(n) == Append(getDbPath(QColl), JsonName(Uuid(n)))
QFiles(S) ==
  [p \in {QFile(n) : n \in S} |-> JSONstringify(QDoc(CHOOSE n \in S : QFile(n) = p))]

\* field=text, and the form of the README, field<op>text (field>=5)
Param(field, text) == <<field, "=">> \o text
OpParam(field, op, text) == <<field>> \o op \o text

FilterParams ==
  { Param("name", <<"a", "b">>), Param("name", <<"A", "B">>),
    Param("name", <<"a", "*">>), Param("name", <<"*", "a">>),
    Param("name", <<"!", "=", "a", "b">>),
    Param("price", <<"1", "0">>),
    Param("price", <<">", "=", "5">>), Param("price", <<"<", "=", "2", "0">>),
    OpParam("price", <<">", "=">>, <<"5">>), OpParam("price", <<"<", "=">>, <<"2", "0">>),
    Param("price", <<">", "=", "1", "0">>), Param("price", <<"<", "=", "1", "0">>),
    Param("price", <<">", "1", "0">>), Param("price", <<"<", "1", "0">>),
    Param("price", <<">", "=", "a">>), Param("name", <<">", "=", "0">>),
    Param("name", <<"!", "=", "A", "B">>), Param("price", <<"!", "=", "0", "1", "0">>) }

SortParams ==
  { Param("_sort", <<"p", "r", "i", "c", "e">>), Param("_sort", <<"n", "a", "m", "e">>),
    Param("_sort", <<"a", "g", "e">>), Param("_sort", <<"t", "a", "g">>),
    Param("_order", <<"d", "e", "s", "c">>), Param("_order", <<"a", "s", "c">>),
    Param("_order", <<"D", "E", "S", "C">>) }

Limit(l) == Param("_limit", NumToText(l))
Offset(o) == Param("_offset", NumToText(o))

Pages ==
  {<<>>} \cup {<<Limit(l)>> : l \in 0..MaxPage} \cup {<<Offset(o)>> : o \in 0..MaxPage}
    \cup {<<Offset(o), Limit(l)>> : o \in 0..MaxPage, l \in 0..MaxPage}

BaseQueries == UNION {[1..n -> FilterParams \cup SortParams] : n \in 0..MaxParams}
Queries == {base \o page : base \in BaseQueries, page \in Pages}

\* the collection, and a path under which nothing is ever created
QPaths == {QColl, Append(QColl, "sub")}

\* a list request: its query string, and the order in which readdir handed the
\* files of the directory to the handler
QRequest(path, query, order) ==
  [method |-> "GET", path |-> path, body |-> NoBody, at |-> now,
   query |-> query, order |-> order]

Query ==
  /\ req = NoRequest
  /\ \E path \in QPaths, query \in Queries :
       \E order \in Orders(jsonFiles(files, dirs, path)) :
         /\ Respond(QRequest(path, query, order),
                    GetQuery(files, dirs, path, order, query))
         /\ UNCHANGED issued

QInit ==
  /\ \/ files = NoFiles /\ dirs = Prefixes(dbPath)
     \/ \E S \in SUBSET (1..MaxDocs) :
          files = QFiles(S) /\ dirs = Prefixes(getDbPath(QColl))
  /\ now = 0
  /\ issued = {parseName(Last(p)) : p \in DOMAIN files}
  /\ req = NoRequest
  /\ res = NoResponse
  /\ pre = NoFiles
  /\ running = NoneRunning

QNext == Query \/ Close

QuerySpec == QInit /\ [][QNext]_vars

\* ---- handlers that run at the same time ------------------------------------------
\* The specification ConcSpec starts from a store that holds the collection
\* /users with one document per identifier, as POST left them.  Each client
\* sends one request; its handler advances one await at a time, and between
\* two of its awaits the handlers of the other clients may advance.  Each
\* call of fs is taken to act at one instant; the code that follows an await
\* up to the next call of fs (or to the response) runs with it.
ConcColl == <<"users">>
ConcBodies == {[name |-> "y"], [email |-> "z"]}

RECURSIVE Posted(_)
\* the store after n POSTs of { name: 'x' } to the collection
Posted(n) ==
  IF n = 0 THEN Outcome(NoResponse, NoFiles, Prefixes(dbPath))
  ELSE PostHandler(Posted(n - 1).files, Posted(n - 1).dirs, ConcColl,
                   [name |-> "x"], Uuid(n), 0)

\* a handler and the files it leaves
Advance(handler, fl) == [handler |-> handler, files |-> fl]

\* res.json(...) / res.status(s).json(...): the handler is over
Finish(r, response) == [r EXCEPT !.pc = "done", !.res = response]

\* path.join(dirPath, `${id}.json`) of the request of handler r
filePathOf(r) ==
  Append(getDbPath(Front(pathParts(r.path))), JsonName(Last(pathParts(r.path))))

\* the handler from the arrival of the request to its first await
onRequest(fl, method, requestPath, body) ==
  LET r     == [Idle EXCEPT !.method = method, !.path = requestPath, !.body = body,
                            !.kept = DOMAIN fl]
      parts == pathParts(requestPath)
  IN  IF method = "GET"
      THEN IF Len(parts) > 0 /\ uuidRegex(Last(parts))
           THEN [r EXCEPT !.pc = "access"]
           ELSE [r EXCEPT !.pc = "stat"]
      ELSE IF Len(parts) = 0
           THEN Finish(r, Error(400, IF method = "DELETE" THEN IdObrigatorioExclusao
                                     ELSE IdObrigatorioAtualizacao))
      ELSE [r EXCEPT !.pc = "access"]

\* await fs.access(filePath)
afterAccess(fl, ds, r) ==
  LET found == stat(fl, ds, filePathOf(r)) IN
  IF found = "ENOENT" THEN Finish(r, Error(404, ItemNaoEncontrado))
  ELSE IF found = "ENOTDIR" THEN Finish(r, Error(500, ErroInterno))
  ELSE [r EXCEPT !.pc = IF r.method = "DELETE" THEN "unlink" ELSE "readFile"]

\* await fs.readFile(filePath, 'utf8'), JSON.parse, and for PUT and PATCH the
\* object that will be written
afterReadFile(fl, ds, r, t) ==
  LET found == stat(fl, ds, filePathOf(r)) IN
  IF found = "ENOENT" THEN Finish(r, Error(404, ItemNaoEncontrado))
  ELSE IF found # "file" THEN Finish(r, Error(500, ErroInterno))
  ELSE LET currentData == JSONparse(fl[filePathOf(r)])
           id          == Last(pathParts(r.path))
       IN  IF r.method = "GET" THEN Finish(r, Doc(200, currentData))
           ELSE [r EXCEPT !.pc = "writeFile",
                          !.currentData = currentData,
                          !.updatedData = IF r.method = "PUT"
                                          THEN PutData(currentData, r.body, id, t)
                                          ELSE PatchData(currentData, r.body, id, t)]

\* a write that merges the body into what the file holds when it is written
afterWriteFileMerged(fl, ds, r) ==
  LET held    == IF filePathOf(r) \in DOMAIN fl THEN JSONparse(fl[filePathOf(r)])
                 ELSE r.currentData
      merged  == Spread(held, r.updatedData)
      written == writeFile(fl, ds, filePathOf(r), JSONstringify(merged))
  IN  IF written.code = "ok" THEN Advance(Finish(r, Doc(200, merged)), written.files)
      ELSE IF written.code = "ENOENT"
           THEN Advance(Finish(r, Error(404, ItemNaoEncontrado)), fl)
      ELSE Advance(Finish(r, Error(500, ErroInterno)), fl)

\* await fs.writeFile(filePath, JSON.stringify(updatedData, null, 2)); res.json
afterWriteFile(fl, ds, r) ==
  LET written == writeFile(fl, ds, filePathOf(r), JSONstringify(r.updatedData)) IN
  IF written.code = "ok" THEN Advance(Finish(r, Doc(200, r.updatedData)), written.files)
  ELSE IF written.code = "ENOENT"
       THEN Advance(Finish(r, Error(404, ItemNaoEncontrado)), fl)
  ELSE Advance(Finish(r, Error(500, ErroInterno)), fl)

\* await fs.unlink(filePath); res.json({ message, id })
afterUnlink(fl, ds, r) ==
  LET found == stat(fl, ds, filePathOf(r)) IN
  IF found = "file"
  THEN Advance(Finish(r, Removed(Last(pathParts(r.path)))), unlink(fl, filePathOf(r)))
  ELSE IF found = "ENOENT" THEN Advance(Finish(r, Error(404, ItemNaoEncontrado)), fl)
  ELSE Advance(Finish(r, Error(500, ErroInterno)), fl)

\* await fs.stat(fullPath) of the list: a directory is read next, everything
\* else is answered as by the handler that runs in one step
afterStat(fl, ds, r) ==
  IF stat(fl, ds, getDbPath(r.path)) = "dir" THEN [r EXCEPT !.pc = "readdir"]
  ELSE Finish(r, GetHandler(fl, ds, r.path, <<>>).res)

\* await fs.readdir(fullPath) and the filter for .json; order is the order of
\* the names
afterReaddir(fl, ds, r, order) ==
  IF order = <<>> THEN Finish(r, List(queryEngine(<<>>, reqQuery(<<>>))))
  ELSE [r EXCEPT !.pc = "readItem", !.jsonFiles = order]

\* one turn of for (const file of jsonFiles): await fs.readFile, items.push;
\* after the last one the query engine and res.json(items); ENOENT is caught
\* by the handler of the missing directory, which answers []
afterReadItem(fl, ds, r) ==
  LET file  == Head(r.jsonFiles)
      found == stat(fl, ds, Append(getDbPath(r.path), file))
  IN  IF found = "ENOENT" THEN Finish(r, List(<<>>))
      ELSE IF found # "file" THEN Finish(r, Error(500, ErroInterno))
      ELSE LET items == Append(r.items,
                               ListItem(file, JSONparse(fl[Append(getDbPath(r.path), file)])))
               next  == [r EXCEPT !.items = items, !.jsonFiles = Tail(r.jsonFiles)]
           IN  IF next.jsonFiles = <<>>
               THEN Finish(next, List(queryEngine(items, reqQuery(<<>>))))
               ELSE next

\* the handler of client c has advanced to r and left the files fl; a file
\* that is gone is no longer one that was there all through the requests
\* that are being handled
Step(c, r, fl) ==
  /\ running' = [d \in Clients |->
                   IF d = c THEN r
                   ELSE IF running[d].pc \in {"idle", "done"} THEN running[d]
                   ELSE [running[d] EXCEPT !.kept = @ \cap DOMAIN fl]]
  /\ files' = fl
  /\ UNCHANGED <<dirs, now, issued, req, res, pre>>

At(c, pc) == running[c].pc = pc

Send ==
  \E c \in Clients :
    /\ At(c, "idle")
    /\ \E path \in ReqPaths :
         \/ \E method \in {"GET", "DELETE"} : Step(c, onRequest(files, method, path, NoBody), files)
         \/ \E method \in {"PUT", "PATCH"}, body \in ConcBodies :
              Step(c, onRequest(files, method, path, body), files)

FsAccess ==
  \E c \in Clients : At(c, "access") /\ Step(c, afterAccess(files, dirs, running[c]), files)

FsReadFile ==
  \E c \in Clients :
    At(c, "readFile") /\ Step(c, afterReadFile(files, dirs, running[c], now), files)

FsWriteFile ==
  \E c \in Clients :
    /\ At(c, "writeFile")
    /\ LET out == afterWriteFile(files, dirs, running[c]) IN Step(c, out.handler, out.files)

FsUnlink ==
  \E c \in Clients :
    /\ At(c, "unlink")
    /\ LET out == afterUnlink(files, dirs, running[c]) IN Step(c, out.handler, out.files)

FsStat ==
  \E c \in Clients : At(c, "stat") /\ Step(c, afterStat(files, dirs, running[c]), files)

FsReaddir ==
  \E c \in Clients :
    /\ At(c, "readdir")
    /\ \E order \in Orders(jsonFiles(files, dirs, running[c].path)) :
         Step(c, afterReaddir(files, dirs, running[c], order), files)

FsReadItem ==
  \E c \in Clients : At(c, "readItem") /\ Step(c, afterReadItem(files, dirs, running[c]), files)

ConcInit ==
  /\ files = Posted(MaxUuid).files
  /\ dirs = Posted(MaxUuid).dirs
  /\ now = 0
  /\ issued = Uuids
  /\ req = NoRequest
  /\ res = NoResponse
  /\ pre = NoFiles
  /\ running = NoneRunning

ConcNext ==
  Send \/ FsAccess \/ FsReadFile \/ FsWriteFile \/ FsUnlink \/ FsStat \/ FsReaddir
    \/ FsReadItem

ConcSpec == ConcInit /\ [][ConcNext]_vars

\* ---- request paths with . and .. ---------------------------------------------------
\* req.path is the path of the request line as it was sent: Express does not
\* resolve . and .. in it.  The specification PathSpec sends the five kinds
\* of request to such paths, from the empty store.
DotSegs == CollSegs \cup {".", "..", Uuid(1)}
DotPaths == UNION {[1..n -> DotSegs] : n \in 1..MaxSegments}
DotBodies == {NoBody, [name |-> "y"]}

DotGet ==
  \E path \in DotPaths :
    \E order \in Orders(jsonFiles(files, dirs, path)) :
      /\ Respond(Request("GET", path, NoBody), GetHandler(files, dirs, path, order))
      /\ UNCHANGED issued

DotPost ==
  \E path \in DotPaths, body \in DotBodies :
    \E id \in Uuids \ issued :
      /\ Respond(Request("POST", path, body), PostHandler(files, dirs, path, body, id, now))
      /\ issued' = issued \cup {id}

DotPut ==
  \E path \in DotPaths, body \in DotBodies :
    /\ Respond(Request("PUT", path, body), PutHandler(files, dirs, path, body, now))
    /\ UNCHANGED issued

DotPatch ==
  \E path \in DotPaths, body \in DotBodies :
    /\ Respond(Request("PATCH", path, body), PatchHandler(files, dirs, path, body, now))
    /\ UNCHANGED issued

DotDelete ==
  \E path \in DotPaths :
    /\ Respond(Request("DELETE", path, NoBody), DeleteHandler(files, dirs, path))
    /\ UNCHANGED issued

PathNext == DotGet \/ DotPost \/ DotPut \/ DotPatch \/ DotDelete \/ Close

PathSpec == Init /\ [][PathNext]_vars

\* ---- vocabulary of the properties -------------------------------------------
\* the file a request to <collection>/<identifier> addresses
Target(path) == Append(getDbPath(Front(path)), JsonName(Last(path)))

Created == req.method = "POST" /\ res.status = 201
Updated == req.method \in {"PUT", "PATCH"} /\ res.status = 200
Patched == req.method = "PATCH" /\ res.status = 200
Replaced == req.method = "PUT" /\ res.status = 200

\* the files the last request added
NewFiles == DOMAIN files \ DOMAIN pre

\* the addressed document before and after the last (successful) update
Before == JSONparse(pre[Target(req.path)])
After == JSONparse(files[Target(req.path)])

\* the fields every update sets itself
Forced == {"id", "updatedAt"}

\* ---- C1 ------------------------------------------------------------------------
\* C1: after a POST that returned 201, whatever the body (also one carrying id,
\* createdAt or updatedAt), a GET of <collection>/<id of the POST response> sent
\* next returns 200 with an object equal to the object the POST returned.
C1_RoundTrip ==
  Created =>
    LET getPath == Append(req.path, res.body["id"]) IN
    \A order \in Orders(jsonFiles(files, dirs, getPath)) :
      LET got == GetHandler(files, dirs, getPath, order).res IN
      /\ got.status = 200
      /\ got.kind = "doc"
      /\ got.body = res.body

\* ---- C2 ------------------------------------------------------------------------
\* C2: on create the id of the body is ignored: the id of the document POST
\* returns and of the document it persists is the generated identifier that
\* names the new file <id>.json.
C2_BodyIdIgnored ==
  Created =>
    \E id \in Uuids :
      /\ NewFiles = {Append(getDbPath(req.path), JsonName(id))}
      /\ res.body["id"] = id
      /\ \A f \in NewFiles : JSONparse(files[f])["id"] = id

\* ---- C3 ------------------------------------------------------------------------
\* C3: in every list response, each document's id is the identifier derived
\* from the name of the file it was loaded from.
C3_ListIdIsFileName ==
  (req.method = "GET" /\ res.kind = "list") =>
    \A order \in Orders(jsonFiles(files, dirs, req.path)) :
      GetHandler(files, dirs, req.path, order).res = res =>
        \A i \in 1..Len(order) : res.body[i]["id"] = parseName(order[i])

\* ---- C4 ------------------------------------------------------------------------
\* C4: a successful PUT or PATCH leaves the stored id of the document as it was
\* (so it stays the value the creating POST returned).
C4_IdImmutable ==
  Updated => After["id"] = Before["id"]

\* ---- C5 ------------------------------------------------------------------------
\* C5: a successful PUT or PATCH, whatever its body, leaves the stored createdAt
\* as it was (so it stays the value the creating POST assigned).
C5_CreatedAtImmutable ==
  Updated =>
    /\ ("createdAt" \in DOMAIN After) = ("createdAt" \in DOMAIN Before)
    /\ "createdAt" \in DOMAIN Before => After["createdAt"] = Before["createdAt"]

\* ---- C6 ------------------------------------------------------------------------
\* C6: a document just created by POST (never updated) has no updatedAt,
\* whatever the creation body; and after a successful PUT or PATCH the stored
\* updatedAt is the time of that update, even when the body carries updatedAt.
C6_UpdatedAtOnlyAfterUpdate ==
  /\ Created => \A f \in NewFiles : "updatedAt" \notin DOMAIN JSONparse(files[f])
  /\ Updated => After["updatedAt"] = toISOString(req.at)

\* ---- C7 ------------------------------------------------------------------------
\* C7: PATCH is a merge.  A successful PATCH with body B on a document with
\* stored content C stores and returns one object: its fields are those of C
\* and B together with id and updatedAt; id is the identifier of the path and
\* updatedAt the time of the request; every other field has B's value when B
\* has it, and C's value unchanged when only C has it.
C7_PatchMerges ==
  Patched =>
    /\ res.kind = "doc"
    /\ res.body = After
    /\ DOMAIN After = DOMAIN Before \cup DOMAIN req.body \cup Forced
    /\ After["id"] = Last(req.path)
    /\ After["updatedAt"] = toISOString(req.at)
    /\ \A f \in DOMAIN req.body \ Forced : After[f] = req.body[f]
    /\ \A f \in DOMAIN Before \ (DOMAIN req.body \cup Forced) : After[f] = Before[f]

\* a PATCH has overwritten a field the document had with another value and
\* kept one the body did not send
C7_Witness ==
  /\ Patched
  /\ "name" \in DOMAIN req.body
  /\ "name" \in DOMAIN Before
  /\ Before["name"] # req.body["name"]
  /\ After["name"] = req.body["name"]
  /\ "createdAt" \in DOMAIN After

\* ---- C8 ------------------------------------------------------------------------
\* C8: a PATCH with an empty body changes only updatedAt: every other field of
\* the stored document (id and createdAt included) keeps its value, and no other
\* field is added or removed.
C8_EmptyPatchFrame ==
  (Patched /\ req.body = NoBody) =>
    \A f \in (DOMAIN Before \cup DOMAIN After) \ {"updatedAt"} :
      /\ f \in DOMAIN Before
      /\ f \in DOMAIN After
      /\ After[f] = Before[f]

\* ---- C9 ------------------------------------------------------------------------
\* C9: PUT is a complete replacement: after a successful PUT with body B the
\* stored document has only id, the fields of B and updatedAt.
C9_PutReplaces ==
  Replaced =>
    /\ DOMAIN After = DOMAIN req.body \cup Forced
    /\ \A f \in DOMAIN req.body \ Forced : After[f] = req.body[f]

WithId == {"PUT", "PATCH", "DELETE"}

\* the path of a request is a bare collection path: no last segment that has
\* the shape of an identifier
Bare(path) == path = <<>> \/ ~uuidRegex(Last(path))

\* the documents stored directly in the collection a path names
DocsOf(fl, path) == {q \in DOMAIN fl : Front(q) = getDbPath(path)}

\* the error of a request that carries no identifier
MissingIdentifier(method) ==
  Error(400, IF method = "DELETE" THEN IdObrigatorioExclusao ELSE IdObrigatorioAtualizacao)

\* ---- C11 -----------------------------------------------------------------------
\* C11: a GET on a collection path whose directory does not exist (nothing was
\* ever created under it), at whatever depth and with whatever query string,
\* is answered 200 with the empty list, and the step creates no directory and
\* no file.
C11_MissingCollectionEmpty ==
  [][(/\ req = NoRequest
      /\ req'.method = "GET"
      /\ Bare(req'.path)
      /\ stat(files, dirs, getDbPath(req'.path)) = "ENOENT")
     => (/\ res' = List(<<>>)
         /\ res'.status = 200
         /\ files' = files
         /\ dirs' = dirs)]_vars

\* a list with a filter and a page was sent, two segments deep, to a path under
\* which nothing was created while documents are stored beside it
C11_Witness ==
  /\ req.method = "GET"
  /\ Len(req.path) = 2
  /\ Bare(req.path)
  /\ stat(pre, dirs, getDbPath(req.path)) = "ENOENT"
  /\ truthy(reqQuery(req.query), "_limit")
  /\ DOMAIN reqQuery(req.query) \ Reserved # {}
  /\ pre # NoFiles
  /\ res = List(<<>>)
  /\ files = pre

\* ---- C12 -----------------------------------------------------------------------
\* C12: a GET, PUT, PATCH or DELETE sent to <collection>/<identifier>, the
\* identifier well formed and no document of that identifier in the collection,
\* is answered 404 with an error body, and the step leaves files and
\* directories as they were (PUT and PATCH do not create the document).
C12_NotFoundNoEffect ==
  [][(/\ req = NoRequest
      /\ req'.method \in WithId \cup {"GET"}
      /\ Len(req'.path) > 0
      /\ uuidRegex(Last(req'.path))
      /\ Target(req'.path) \notin DOMAIN files)
     => (/\ res'.status = 404
         /\ res'.kind = "error"
         /\ DOMAIN res'.body = {"error"}
         /\ files' = files
         /\ dirs' = dirs)]_vars

\* a PATCH with a body was sent to a well-formed identifier that no document of
\* a non-empty collection has, and was answered 404
C12_Witness ==
  /\ req.method = "PATCH"
  /\ req.body # NoBody
  /\ Len(req.path) > 0
  /\ uuidRegex(Last(req.path))
  /\ Target(req.path) \notin DOMAIN pre
  /\ DocsOf(pre, Front(req.path)) # {}
  /\ res.status = 404
  /\ files = pre

\* ---- C13 -----------------------------------------------------------------------
\* C13: after a DELETE of <collection>/<id> returned 200, a GET of
\* <collection>/<id> sent next returns 404, and a list of <collection> sent
\* next contains no document whose id is <id>.
C13_DeletedIsGone ==
  (req.method = "DELETE" /\ res.status = 200) =>
    /\ \A order \in Orders(jsonFiles(files, dirs, req.path)) :
         GetHandler(files, dirs, req.path, order).res.status = 404
    /\ \A order \in Orders(jsonFiles(files, dirs, Front(req.path))) :
         LET got == GetHandler(files, dirs, Front(req.path), order).res IN
         /\ got.kind = "list"
         /\ \A i \in 1..Len(got.body) : got.body[i]["id"] # res.body["id"]

\* ---- C14 -----------------------------------------------------------------------
\* C14: a PUT, PATCH or DELETE whose path is a bare collection path is rejected
\* with the MissingIdentifier error (not with NotFound) and changes no file.
C14_MissingIdentifier ==
  (req.method \in WithId /\ Bare(req.path)) =>
    /\ res = MissingIdentifier(req.method)
    /\ files = pre

\* C14 as amended: a PUT, PATCH or DELETE is rejected with MissingIdentifier
\* only when its path has no segment; on a bare collection path that has
\* segments the last segment is taken for the identifier and the request is
\* rejected with NotFound; in both cases no file changes.
C14_BareCollectionRejected ==
  (req.method \in WithId /\ Bare(req.path)) =>
    /\ res = IF req.path = <<>> THEN MissingIdentifier(req.method)
             ELSE Error(404, ItemNaoEncontrado)
    /\ files = pre

\* a PUT with a body was sent to the root path while documents were stored, and
\* was rejected with MissingIdentifier
C14_Witness ==
  /\ req.method = "PUT"
  /\ req.path = <<>>
  /\ req.body # NoBody
  /\ pre # NoFiles
  /\ res = MissingIdentifier("PUT")
  /\ files = pre

C16_CreatedIsListed ==
  Created =>
    \A order \in Orders(jsonFiles(files, dirs, req.path)) :
      LET got == GetHandler(files, dirs, req.path, order).res IN
      /\ got.status = 200
      /\ got.kind = "list"
      /\ \E i \in 1..Len(got.body) : got.body[i] = res.body

\* C16 as amended: after POST P returned 201, a GET P without query sent next
\* returns a list that contains the created document when the last segment of
\* P has not the shape of an identifier; when it has, the GET is a lookup of
\* that identifier in the collection above: it returns 404, or the document of
\* that identifier, and no list.
C16_CreatedIsListedUnlessId ==
  Created =>
    \A order \in Orders(jsonFiles(files, dirs, req.path)) :
      LET got == GetHandler(files, dirs, req.path, order).res IN
      IF Bare(req.path)
      THEN /\ got.status = 200
           /\ got.kind = "list"
           /\ \E i \in 1..Len(got.body) : got.body[i] = res.body
      ELSE \/ got = Error(404, ItemNaoEncontrado) /\ Target(req.path) \notin DOMAIN files
           \/ /\ Target(req.path) \in DOMAIN files
              /\ got = Doc(200, JSONparse(files[Target(req.path)]))

\* a POST with a body has added a document to a collection that held one
C16_Witness ==
  /\ Created
  /\ Bare(req.path)
  /\ req.body # NoBody
  /\ DocsOf(pre, req.path) # {}
  /\ Cardinality(DocsOf(files, req.path)) = Cardinality(DocsOf(pre, req.path)) + 1

\* ---- vocabulary of C17..C20 ------------------------------------------------------
\* a list of the collection was answered
Listed == req.method = "GET" /\ req.path = QColl /\ res.kind = "list"

\* the documents the handler loaded, in the order it read them
Loaded == GetHandler(pre, dirs, req.path, req.order).res.body

\* what the handler answers to the request of req with another query string
Answer(query) == GetQuery(pre, dirs, req.path, req.order, query).res.body

\* the parameters of a query string that are not _limit or _offset
IsPage(param) == KeyOf(param) \in {"_limit", "_offset"}
Unpaged(query) == SelectSeq(query, LAMBDA param : ~IsPage(param))

\* the filters of a query string: the parameters whose name is not reserved
Filters(query) == SelectSeq(query, LAMBDA param : KeyOf(param) \notin Reserved)

Min(a, b) == IF a < b THEN a ELSE b
Max(a, b) == IF a > b THEN a ELSE b
Range(seq) == {seq[i] : i \in 1..Len(seq)}

\* ---- C17 -----------------------------------------------------------------------
\* C17: when the filtered, sorted sequence S of a list has N documents, the list
\* with _limit=L and _offset=O (L >= 0, O >= 0, L = 0 included) returns exactly
\* max(0, min(L, N-O)) documents: S[O], ..., S[O+L-1] as far as they exist, in
\* the order of S.
C17_Pagination ==
  Listed =>
    \A l, o \in 0..MaxPage :
      (Limit(l) \in Range(req.query) /\ Offset(o) \in Range(req.query)) =>
        LET S == Answer(Unpaged(req.query))
            N == Len(S)
        IN  /\ Len(res.body) = Max(0, Min(l, N - o))
            /\ \A i \in 1..Len(res.body) : res.body[i] = S[o + i]

\* ---- C18 -----------------------------------------------------------------------
\* C18: filtering is conjunctive over the parameters that are not reserved: a
\* document is listed if and only if, for every parameter other than _limit,
\* _offset, _sort and _order, it has the field and the value of the field
\* matches the filter value (a plain filter value matches by case-insensitive
\* equality of strings); the reserved parameters exclude no document as
\* filters, whether or not a document has a field of that name.  The listing
\* is compared before the page is cut out of it.
OperatorPrefixes == {<<">">>, <<"<">>, <<"!", "=">>}
Plain(text) ==
  ~IsIn("*", text) /\ \A op \in OperatorPrefixes : ~startsWith(text, op)

\* the document has the field of the filter and its value matches
Matches(doc, param) ==
  /\ KeyOf(param) \in DOMAIN doc
  /\ IF Plain(ValOf(param))
     THEN toLowerCase(String(doc[KeyOf(param)])) = toLowerCase(ValOf(param))
     ELSE filterEntry(doc, KeyOf(param), <<ValOf(param)>>)

MatchesAll(doc, query) ==
  \A j \in 1..Len(query) : KeyOf(query[j]) \notin Reserved => Matches(doc, query[j])

C18_ConjunctiveFilter ==
  Listed =>
    /\ \A doc \in Range(Loaded) :
         doc \in Range(Answer(Unpaged(req.query))) <=> MatchesAll(doc, req.query)
    /\ Range(res.body) \subseteq {doc \in Range(Loaded) : MatchesAll(doc, req.query)}
    /\ Unpaged(req.query) = req.query =>
         Range(res.body) = {doc \in Range(Loaded) : MatchesAll(doc, req.query)}

\* ---- C19 -----------------------------------------------------------------------
\* C19: a wildcard filter is anchored to the whole value: with a filter p* (a
\* literal prefix and one final *) every listed document has a value of the
\* field that, in lower case, starts with p; with a filter *s, one that ends
\* with s.
Literal(text) == text # <<>> /\ Plain(text)
C19_WildcardAnchored ==
  Listed =>
    \A j \in 1..Len(req.query), doc \in Range(res.body) :
      LET key   == KeyOf(req.query[j])
          value == ValOf(req.query[j])
          p     == SubSeq(value, 1, Len(value) - 1)
          sfx   == Tail(value)
      IN  (key \notin Reserved /\ Len(value) > 1) =>
            /\ (Literal(p) /\ Last(value) = "*") =>
                 /\ key \in DOMAIN doc
                 /\ startsWith(toLowerCase(String(doc[key])), toLowerCase(p))
            /\ (Literal(sfx) /\ Head(value) = "*") =>
                 /\ key \in DOMAIN doc
                 /\ endsWith(toLowerCase(String(doc[key])), toLowerCase(sfx))

\* ---- C20 -----------------------------------------------------------------------
\* C20: a list whose query string has a lower bound (>=a) and an upper bound
\* (<=b) on the same field, and no other filter, returns exactly the documents
\* whose numeric value of the field lies in [a, b]: with the stored prices 1,
\* 10 and 25, price>=5&price<=20 returns the document of price 10 only.
LowerBound(field, a) ==
  {Param(field, <<">", "=">> \o NumToText(a)), OpParam(field, <<">", "=">>, NumToText(a))}
UpperBound(field, b) ==
  {Param(field, <<"<", "=">> \o NumToText(b)), OpParam(field, <<"<", "=">>, NumToText(b))}

InRange(doc, field, a, b) ==
  /\ field \in DOMAIN doc
  /\ parseFloatOf(doc[field]) # NaN
  /\ a <= parseFloatOf(doc[field])[1]
  /\ parseFloatOf(doc[field])[1] <= b

C20_RangeFilter ==
  Listed =>
    \A lower \in LowerBound("price", 5), upper \in UpperBound("price", 20) :
      (Range(req.query) = {lower, upper} /\ Len(req.query) = 2) =>
        Range(res.body) = {doc \in Range(Loaded) : InRange(doc, "price", 5, 20)}

\* ---- vocabulary of C21..C25 ------------------------------------------------------
\* the query string of the request has one filter, and it is parameter j
SingleFilter(query, j) ==
  Len(Filters(query)) = 1 /\ KeyOf(query[j]) \notin Reserved

\* the listing before the page is cut out of it
Unpaginated == Answer(Unpaged(req.query))

\* the comparison operators of a filter value, in the order they are looked for
NumericOps == <<<<">", "=">>, <<"<", "=">>, <<">">>, <<"<">>>>
OperatorOf(text) ==
  IF \E i \in 1..Len(NumericOps) : startsWith(text, NumericOps[i])
  THEN CHOOSE i \in 1..Len(NumericOps) :
         startsWith(text, NumericOps[i]) /\ \A k \in 1..(i - 1) : ~startsWith(text, NumericOps[k])
  ELSE 0
Holds(v, i, n) ==
  IF i = 1 THEN v >= n ELSE IF i = 2 THEN v <= n ELSE IF i = 3 THEN v > n ELSE v < n

\* ---- C21 -----------------------------------------------------------------------
\* C21: for a single filter field=<op><n>, op one of >=, <=, >, < (looked for
\* in that order), the listed documents are exactly those that have the field
\* with a value that parses as a number v and v op n; a document whose value
\* of the field does not parse as a number is excluded, and when the text after
\* the operator does not parse as a number every document is excluded.
C21_NumericFilter ==
  Listed =>
    \A j \in 1..Len(req.query) :
      LET field == KeyOf(req.query[j])
          value == ValOf(req.query[j])
          op    == OperatorOf(value)
          n     == parseFloat(sliceFrom(value, Len(NumericOps[op])))
          expected ==
            {doc \in Range(Loaded) :
               /\ n # NaN
               /\ field \in DOMAIN doc
               /\ parseFloatOf(doc[field]) # NaN
               /\ Holds(parseFloatOf(doc[field])[1], op, n[1])}
      IN  (SingleFilter(req.query, j) /\ op # 0) =>
            /\ Range(Unpaginated) = expected
            /\ Range(res.body) \subseteq expected

\* the list with price=>=10 of the three documents has returned the documents
\* of price 10 and 25
C21_Witness ==
  /\ Listed
  /\ req.query = <<Param("price", <<">", "=", "1", "0">>)>>
  /\ Len(Loaded) = 3
  /\ {doc["price"] : doc \in Range(res.body)} = {Num(10), Num(25)}

\* ---- C22 -----------------------------------------------------------------------
\* C22: for a single filter field=!=v the listed documents are exactly those
\* that have the field and whose value, written as a string in lower case,
\* differs from v in lower case; a document without the field is excluded, and
\* the two sides are not compared as numbers (010 is not 10).
C22_NegationFilter ==
  Listed =>
    \A j \in 1..Len(req.query) :
      LET field == KeyOf(req.query[j])
          value == ValOf(req.query[j])
          v     == sliceFrom(value, 2)
          expected ==
            {doc \in Range(Loaded) :
               /\ field \in DOMAIN doc
               /\ toLowerCase(String(doc[field])) # toLowerCase(v)}
      IN  (SingleFilter(req.query, j) /\ startsWith(value, <<"!", "=">>)) =>
            /\ Range(Unpaginated) = expected
            /\ Range(res.body) \subseteq expected

\* the list with name=!=AB of the three documents (names ab and Ba, one
\* without name) has returned the document named Ba only
C22_Witness ==
  /\ Listed
  /\ req.query = <<Param("name", <<"!", "=", "A", "B">>)>>
  /\ Len(Loaded) = 3
  /\ Len(res.body) = 1
  /\ res.body[1]["name"] = Str(<<"B", "a">>)

\* ---- C23 -----------------------------------------------------------------------
\* C23: when the query string has _sort=f and every document that passes the
\* filters has a number as f, the response is in non-increasing order of f if
\* _order is exactly desc, and in non-decreasing order of f for every other
\* _order and without _order; when the query string has no _sort, the
\* documents of the response are in the order in which they were loaded.
SortField(query) == Implode(ValuesOf("_sort", query)[1])
Descending(query) == ValuesOf("_order", query) = <<<<"d", "e", "s", "c">>>>
IsNumber(doc, f) == f \in DOMAIN doc /\ ~IsStr(doc[f])
PositionIn(seq, doc) == CHOOSE i \in 1..Len(seq) : seq[i] = doc

C23_Sorted ==
  Listed =>
    /\ (/\ Len(ValuesOf("_sort", req.query)) = 1
        /\ \A doc \in Range(Answer(Filters(req.query))) : IsNumber(doc, SortField(req.query)))
       => \A i, j \in 1..Len(res.body) :
            i < j => IF Descending(req.query)
                     THEN res.body[i][SortField(req.query)].n >= res.body[j][SortField(req.query)].n
                     ELSE res.body[i][SortField(req.query)].n <= res.body[j][SortField(req.query)].n
    /\ ValuesOf("_sort", req.query) = <<>>
       => /\ Range(res.body) \subseteq Range(Loaded)
          /\ \A i, j \in 1..Len(res.body) :
               i < j => PositionIn(Loaded, res.body[i]) < PositionIn(Loaded, res.body[j])

\* the three documents, loaded in the order of prices 10, 1, 25, were listed
\* with _sort=price&_order=desc in the order 25, 10, 1
C23_Witness ==
  /\ Listed
  /\ req.query = <<Param("_sort", <<"p", "r", "i", "c", "e">>),
                   Param("_order", <<"d", "e", "s", "c">>)>>
  /\ [i \in 1..Len(Loaded) |-> Loaded[i]["price"]] = <<Num(10), Num(1), Num(25)>>
  /\ [i \in 1..Len(res.body) |-> res.body[i]["price"]] = <<Num(25), Num(10), Num(1)>>

\* ---- C24 -----------------------------------------------------------------------
\* C24: when the query string has _sort=f, every document of the response that
\* lacks the field f comes after every document of the response that has it,
\* with _order=desc as well as in ascending order.
C24_MissingLast ==
  (Listed /\ Len(ValuesOf("_sort", req.query)) = 1) =>
    \A i, j \in 1..Len(res.body) :
      (SortField(req.query) \notin DOMAIN res.body[i]
         /\ SortField(req.query) \in DOMAIN res.body[j]) => i > j

\* the three documents, loaded with the two that have no tag first, were
\* listed with _sort=tag&_order=desc: the one that has a tag came first
C24_Witness ==
  /\ Listed
  /\ req.query = <<Param("_sort", <<"t", "a", "g">>), Param("_order", <<"d", "e", "s", "c">>)>>
  /\ Len(Loaded) = 3
  /\ "tag" \notin DOMAIN Loaded[1]
  /\ "tag" \notin DOMAIN Loaded[2]
  /\ "tag" \in DOMAIN res.body[1]
  /\ Len(res.body) = 3

\* ---- C25 -----------------------------------------------------------------------
\* C25: for every collection in which all documents have a value for the field
\* f (also when several documents share the same value), the list returned for
\* _sort=f&_order=desc, reversed, equals the list returned for
\* _sort=f&_order=asc.
Desc(f) == <<Param("_sort", f), Param("_order", <<"d", "e", "s", "c">>)>>
Asc(f) == <<Param("_sort", f), Param("_order", <<"a", "s", "c">>)>>
SortFields == {ValOf(param) : param \in {p \in SortParams : KeyOf(p) = "_sort"}}
AllHave(f) == \A doc \in Range(Loaded) : Implode(f) \in DOMAIN doc

C25_DescReversedIsAsc ==
  Listed =>
    \A f \in SortFields :
      (req.query = Desc(f) /\ AllHave(f)) => Reverse(res.body) = Answer(Asc(f))

\* C25 as amended: when all documents have a value for f, all of them numbers
\* or all of them strings, the list for desc, reversed, has the documents of
\* the list for asc, position by position with an equal value of f; documents
\* that share the value of f come in the opposite order in the two (each of
\* the two sorts keeps them in the order of loading), so that the two lists
\* are equal when no two documents share the value of f.
SameValue(a, b, f) == compare(a, b, f, 1) = 0 /\ compare(b, a, f, 1) = 0
OneType(f) ==
  \/ \A doc \in Range(Loaded) : IsStr(doc[Implode(f)])
  \/ \A doc \in Range(Loaded) : ~IsStr(doc[Implode(f)])

C25_DescReversedIsAscUpToTies ==
  Listed =>
    \A f \in SortFields :
      (req.query = Desc(f) /\ AllHave(f) /\ OneType(f)) =>
        LET asc      == Answer(Asc(f))
            reversed == Reverse(res.body)
        IN  /\ Len(reversed) = Len(asc)
            /\ Range(reversed) = Range(asc)
            /\ \A i \in 1..Len(asc) : SameValue(asc[i], reversed[i], Implode(f))
            /\ \A i, j \in 1..Len(asc) :
                 (i < j /\ SameValue(asc[i], asc[j], Implode(f))) =>
                   PositionIn(reversed, asc[i]) > PositionIn(reversed, asc[j])
            /\ (\A i, j \in 1..Len(asc) : i # j => ~SameValue(asc[i], asc[j], Implode(f)))
                 => reversed = asc

\* the three documents, two of them of age 30, were listed with
\* _sort=age&_order=desc
C25_Witness ==
  /\ Listed
  /\ req.query = Desc(<<"a", "g", "e">>)
  /\ Len(Loaded) = 3
  /\ Len(res.body) = 3
  /\ res.body[1]["age"] = res.body[2]["age"]
  /\ res.body[3]["age"] = Num(25)

\* ---- vocabulary of C26..C28 ------------------------------------------------------
Done(c) == running[c].pc = "done"
Answered(c, method, status) ==
  Done(c) /\ running[c].method = method /\ running[c].res.status = status
Updated200(c) == Answered(c, "PUT", 200) \/ Answered(c, "PATCH", 200)

\* the document has the fields of the body with the values of the body
Wrote(doc, body) == \A f \in DOMAIN body : f \in DOMAIN doc /\ doc[f] = body[f]

\* two updates of one document with disjoint sets of fields, both answered 200,
\* each of which had read the document before the other wrote it, and no
\* third request that writes or removes the document
Overlapped(a, b) ==
  /\ a # b
  /\ Updated200(a)
  /\ Updated200(b)
  /\ running[a].path = running[b].path
  /\ DOMAIN running[a].body \cap DOMAIN running[b].body = {}
  /\ ~Wrote(running[a].currentData, running[b].body)
  /\ ~Wrote(running[b].currentData, running[a].body)
  /\ \A c \in Clients \ {a, b} :
       running[c].method \in {"PUT", "PATCH", "DELETE"} => running[c].path # running[a].path

\* ---- C26 -----------------------------------------------------------------------
\* C26: a lost update is reachable.  When two PATCH or PUT requests to the same
\* document with disjoint sets of fields are handled at the same time, each
\* reading the document before the other has written it, both are answered
\* 200 and the document stored in the end is the one the later write sent: it
\* has the fields of that request and lacks the fields written by the other.
C26_LostUpdate ==
  \A a, b \in Clients :
    Overlapped(a, b) =>
      /\ filePathOf(running[a]) \in DOMAIN files
      /\ LET stored == JSONparse(files[filePathOf(running[a])]) IN
         /\ stored \in {running[a].res.body, running[b].res.body}
         /\ ~(Wrote(stored, running[a].body) /\ Wrote(stored, running[b].body))

\* two PATCH requests to the same document, one with name and one with email,
\* were both answered 200, and the stored document has the name of the one
\* and no email
C26_Witness ==
  \E a, b \in Clients :
    /\ Answered(a, "PATCH", 200)
    /\ Answered(b, "PATCH", 200)
    /\ running[a].path = running[b].path
    /\ running[a].body = [name |-> "y"]
    /\ running[b].body = [email |-> "z"]
    /\ running[b].res.body["email"] = "z"
    /\ filePathOf(running[a]) \in DOMAIN files
    /\ JSONparse(files[filePathOf(running[a])])["name"] = "y"
    /\ "email" \notin DOMAIN JSONparse(files[filePathOf(running[a])])

\* ---- C27 -----------------------------------------------------------------------
\* C27: deletion is permanent under every interleaving: once a DELETE of
\* <collection>/<id> was answered 200, no later state of the store has a
\* document of that id in the collection, also when a PUT or PATCH to the same
\* id was being handled while the DELETE was.
C27_DeletionPermanent ==
  \A c \in Clients :
    Answered(c, "DELETE", 200) => filePathOf(running[c]) \notin DOMAIN files

\* ---- C28 -----------------------------------------------------------------------
\* C28: a list of a collection, handled while DELETE requests remove documents
\* of the collection, returns every document that was in the collection from
\* the beginning to the end of the list request, and is never the empty list
\* when some document was there all through.
OnlyDeletesBeside(c) ==
  \A d \in Clients \ {c} : running[d].method \in {"NONE", "DELETE"}

KeptDocs(c) == {q \in running[c].kept : Front(q) = getDbPath(running[c].path)}

C28_ListUnderDelete ==
  \A c \in Clients :
    (Done(c) /\ running[c].method = "GET" /\ running[c].path = ConcColl
       /\ OnlyDeletesBeside(c)) =>
      /\ running[c].res.kind = "list"
      /\ \A q \in KeptDocs(c) :
           \E i \in 1..Len(running[c].res.body) :
             running[c].res.body[i]["id"] = parseName(Last(q))
      /\ KeptDocs(c) # {} => running[c].res.body # <<>>

\* ---- C29 -----------------------------------------------------------------------
\* C29: for every method and every request path (any sequence of segments,
\* . and .. included), every file or directory the handler reads, creates,
\* writes or removes lies inside the root storage directory.
Inside(p) == IsPrefix(dbPath, p)

\* the paths the handler of the last request gave to fs
Addressed ==
  IF req.method = "POST" THEN {getDbPath(req.path)} \cup NewFiles
  ELSE IF req.method = "GET" /\ Bare(req.path)
       THEN {getDbPath(req.path)}
              \cup (IF res.kind = "list" THEN DocsOf(pre, req.path) ELSE {})
  ELSE IF req.path = <<>> THEN {}
  ELSE {Target(req.path)}

\* the files the last request created, changed or removed
Changed ==
  {p \in DOMAIN files \cup DOMAIN pre :
     p \notin DOMAIN files \/ p \notin DOMAIN pre \/ files[p] # pre[p]}

C29_StorageContainment ==
  /\ req # NoRequest => \A p \in Addressed \cup Changed : Inside(p)
  /\ \A p \in dirs \cup DOMAIN files : Inside(p) \/ p \in Prefixes(dbPath)

\* ---- C30 -----------------------------------------------------------------------
\* C30: frame.  A GET leaves files and directories as they were; a POST
\* answered 201 adds one file and changes no file that was there; a PUT or
\* PATCH answered 200 changes no file but the one it addresses; a DELETE
\* answered 200 removes the file it addresses and no other; every other
\* document, of the same and of other collections, keeps its content.
Kept(fl, gl, except) ==
  \A p \in DOMAIN fl \ except : p \in DOMAIN gl /\ gl[p] = fl[p]

C30_Frame ==
  [][(req = NoRequest /\ req' # NoRequest) =>
       LET request == req'
           status  == res'.status
           target  == IF request.path = <<>> THEN {} ELSE {Target(request.path)}
       IN  /\ request.method = "GET" => files' = files /\ dirs' = dirs
           /\ (request.method = "POST" /\ status = 201) =>
                /\ Cardinality(DOMAIN files' \ DOMAIN files) = 1
                /\ Kept(files, files', {})
           /\ (request.method \in {"PUT", "PATCH"} /\ status = 200) =>
                /\ DOMAIN files' = DOMAIN files
                /\ target \subseteq DOMAIN files
                /\ Kept(files, files', target)
                /\ dirs' = dirs
           /\ (request.method = "DELETE" /\ status = 200) =>
                /\ target \subseteq DOMAIN files
                /\ DOMAIN files' = DOMAIN files \ target
                /\ Kept(files, files', target)
                /\ dirs' = dirs]_vars

\* a DELETE answered 200 has removed one of the two documents of a collection
\* and left the other
C30_Witness ==
  /\ req.method = "DELETE"
  /\ res.status = 200
  /\ Cardinality(DocsOf(pre, Front(req.path))) = 2
  /\ Cardinality(DocsOf(files, Front(req.path))) = 1
  /\ Target(req.path) \notin DOMAIN files

====
